---- MODULE Spec2Model ----
(***************************************************************************)
(* Model of Source/Editor/Cooker/Platform/iOS/iOSPlatformTools.cpp:        *)
(* the iOS post-process step of the game cooker (OnPostProcess), the       *)
(* helper GetAppName and the texture format selection GetTextureFormat.    *)
(*                                                                         *)
(* Text is modelled as a sequence of symbols.  User controlled text        *)
(* (settings, file paths, placeholder keys, the project template) is       *)
(* spelled one character per symbol.  The constant fragments of the        *)
(* String::Format patterns, which hold no '$', are one symbol each, and so *)
(* is the 24 character text of an object id.                               *)
(***************************************************************************)
EXTENDS Integers, Sequences, FiniteSets, TLC

VARIABLES
    gameSettings,       \* GameSettings: ProductName, CompanyName
    platformSettings,   \* iOSPlatformSettings: AppIdentifier, AppTeamId
    buildSettings,      \* BuildSettings: SkipPackaging
    StartupFolder,      \* Globals::StartupFolder
    diskFiles,          \* files below data.DataOutputPath, in listing order
    templateFile,       \* project.pbxproj of the platform's template project
    projectFile,        \* project.pbxproj below data.OriginalOutputPath
    pc,                 \* position of OnPostProcess
    appName,            \* local appName
    appIdentifier,      \* local appIdentifier
    configReplaceMap,   \* local configReplaceMap
    files,              \* local files
    fileIndex,          \* position of the range-for over files
    guidCounter,        \* number of Guid::New calls made so far
    calls,              \* calls made to file system, process and cooker services
    procCalls,          \* CreateProcessSettings handed to Platform::CreateProcess
    log,                \* LOG lines written by OnPostProcess
    result,             \* return value of OnPostProcess ("none" while running)
    format,             \* GetTextureFormat: the format argument
    cooked,             \* GetTextureFormat: the value returned for format
    recooked            \* GetTextureFormat: the value returned for cooked

vars == <<gameSettings, platformSettings, buildSettings, StartupFolder, diskFiles,
          templateFile, projectFile, pc, appName, appIdentifier, configReplaceMap,
          files, fileIndex, guidCounter, calls, procCalls, log, result,
          format, cooked, recooked>>

settingsVars == <<gameSettings, platformSettings, buildSettings, StartupFolder,
                  diskFiles, templateFile>>

textureVars == <<format, cooked, recooked>>

pipelineVars == <<projectFile, pc, appName, appIdentifier, configReplaceMap, files,
                  fileIndex, guidCounter, calls, procCalls, log, result>>

----------------------------------------------------------------------------
(* Bounds *)

MaxFiles == 3

----------------------------------------------------------------------------
(* Strings *)

UpperChars == <<"A", "B", "C", "D", "E", "F", "G", "H", "I", "J", "K", "L", "M", "N", "O", "P", "Q", "R", "S", "T", "U", "V", "W", "X", "Y", "Z">>

LowerChars == <<"a", "b", "c", "d", "e", "f", "g", "h", "i", "j", "k", "l", "m", "n", "o", "p", "q", "r", "s", "t", "u", "v", "w", "x", "y", "z">>

DigitChars == <<"0", "1", "2", "3", "4", "5", "6", "7", "8", "9">>

Range(s) == {s[i] : i \in 1..Len(s)}

\* StringUtils::ToLower on one character: A-Z to a-z.
ToLowerChar(c) ==
    IF \E i \in 1..Len(UpperChars) : UpperChars[i] = c
    THEN LowerChars[CHOOSE i \in 1..Len(UpperChars) : UpperChars[i] = c]
    ELSE c

\* String::ToLower
ToLower(s) == [i \in 1..Len(s) |-> ToLowerChar(s[i])]

\* StringUtils::IsAlnum: letters and digits.
IsAlnum(c) == c \in Range(UpperChars) \cup Range(LowerChars) \cup Range(DigitChars)

\* Whether find occurs in s at position i.
MatchesAt(s, i, find, ignoreCase) ==
    /\ i + Len(find) - 1 <= Len(s)
    /\ \A j \in 1..Len(find) :
          IF ignoreCase
          THEN ToLowerChar(s[i + j - 1]) = ToLowerChar(find[j])
          ELSE s[i + j - 1] = find[j]

\* String::Contains
Contains(s, find) == \E i \in 1..Len(s) : MatchesAt(s, i, find, FALSE)

RECURSIVE ReplaceFrom(_, _, _, _, _)
ReplaceFrom(s, hits, from, length, replacement) ==
    LET rest == {i \in hits : i >= from}
    IN IF rest = {} THEN SubSeq(s, from, Len(s))
       ELSE LET i == CHOOSE h \in rest : \A g \in rest : h <= g
            IN SubSeq(s, from, i - 1) \o replacement
               \o ReplaceFrom(s, hits, i + length, length, replacement)

\* String::Replace: every occurrence of find, left to right, not overlapping;
\* the replacement text is not searched again.
Replace(s, find, replacement, ignoreCase) ==
    IF Len(find) = 0 THEN s
    ELSE LET hits == {i \in 1..Len(s) : MatchesAt(s, i, find, ignoreCase)}
         IN IF hits = {} THEN s ELSE ReplaceFrom(s, hits, 1, Len(find), replacement)

\* String::EndsWith
EndsWith(s, suffix) ==
    /\ Len(suffix) <= Len(s)
    /\ SubSeq(s, Len(s) - Len(suffix) + 1, Len(s)) = suffix

\* StringUtils::GetFileName: the text after the last path separator.
GetFileName(path) ==
    LET seps == {i \in 1..Len(path) : path[i] = "/"}
        last == IF seps = {} THEN 0 ELSE CHOOSE i \in seps : \A j \in seps : j <= i
    IN SubSeq(path, last + 1, Len(path))

\* FileSystem::ConvertAbsolutePathToRelative
ConvertAbsolutePathToRelative(basePath, path) ==
    IF MatchesAt(path, 1, basePath \o <<"/">>, FALSE)
    THEN SubSeq(path, Len(basePath) + 2, Len(path))
    ELSE path

\* Guid::New().ToString(Guid::FormatType::N).Left(24): the n-th call of a run
\* returns an id no earlier call returned.
GuidNew(counter) == counter + 1

\* The text of an object id.
IdText(id) == <<"id" \o ToString(id)>>

----------------------------------------------------------------------------
(* GetAppName and the application identifier *)

\* The three Replace calls that clean a product or company name.
StripName(name) ==
    Replace(Replace(Replace(name, <<" ">>, <<>>, FALSE), <<".">>, <<>>, FALSE), <<"-">>, <<>>, FALSE)

GetAppName(settings) == StripName(settings.ProductName)

\* appIdentifier after the two token replacements and ToLower.
ResolveAppIdentifier(identifier, productName, companyName) ==
    ToLower(Replace(Replace(identifier, <<"$", "{", "P", "R", "O", "J", "E", "C", "T", "_", "N", "A", "M", "E", "}">>, StripName(productName), TRUE),
                    <<"$", "{", "C", "O", "M", "P", "A", "N", "Y", "_", "N", "A", "M", "E", "}">>, StripName(companyName), TRUE))

IsInvalidCharNoUnderscore(c) == c # "." /\ ~IsAlnum(c)

\* The test of one character of appIdentifier.
IsInvalidChar(c) == c # "_" /\ c # "." /\ ~IsAlnum(c)

LogInvalidIdentifier(identifier) ==
    [level |-> "Error", text |-> "Apple app identifier contains invalid character", arg |-> identifier]

LogEmptyIdentifier(identifier) ==
    [level |-> "Error", text |-> "Apple app identifier is empty", arg |-> identifier]

LogDeployFailed ==
    [level |-> "Error", text |-> "Failed to deploy XCode project", arg |-> <<>>]

LogFormatFailed ==
    [level |-> "Error", text |-> "Failed to format XCode project", arg |-> <<>>]

LogBuildingPackage ==
    [level |-> "Info", text |-> "Building app package...", arg |-> <<>>]

ResolveIdentifier ==
    /\ pc = "start"
    /\ LET identifier == ResolveAppIdentifier(platformSettings.AppIdentifier,
                                              gameSettings.ProductName,
                                              gameSettings.CompanyName)
       IN /\ appName' = GetAppName(gameSettings)
          /\ appIdentifier' = identifier
          /\ IF \E i \in 1..Len(identifier) : IsInvalidChar(identifier[i])
             THEN /\ log' = Append(log, LogInvalidIdentifier(identifier))
                  /\ result' = TRUE
                  /\ pc' = "done"
             ELSE IF identifier = <<>>
             THEN /\ log' = Append(log, LogEmptyIdentifier(identifier))
                  /\ result' = TRUE
                  /\ pc' = "done"
             ELSE /\ pc' = "deploy"
                  /\ UNCHANGED <<log, result>>
    /\ UNCHANGED <<settingsVars, textureVars, projectFile, configReplaceMap, files,
                   fileIndex, guidCounter, calls, procCalls>>

DeployTemplateContinues ==
    /\ pc = "deploy"
    /\ calls' = Append(calls, "CopyDirectory")
    /\ \E failed \in BOOLEAN :
          IF failed
          THEN /\ log' = Append(log, LogDeployFailed)
               /\ pc' = "seed"
               /\ UNCHANGED <<projectFile, result>>
          ELSE /\ projectFile' = templateFile
               /\ pc' = "seed"
               /\ UNCHANGED <<log, result>>
    /\ UNCHANGED <<settingsVars, textureVars, appName, appIdentifier, configReplaceMap,
                   files, fileIndex, guidCounter, procCalls>>

\* FileSystem::CopyDirectory of the template project; it may fail.
DeployTemplate ==
    /\ pc = "deploy"
    /\ calls' = Append(calls, "CopyDirectory")
    /\ \E failed \in BOOLEAN :
          IF failed
          THEN /\ log' = Append(log, LogDeployFailed)
               /\ result' = TRUE
               /\ pc' = "done"
               /\ UNCHANGED projectFile
          ELSE /\ projectFile' = templateFile
               /\ pc' = "seed"
               /\ UNCHANGED <<log, result>>
    /\ UNCHANGED <<settingsVars, textureVars, appName, appIdentifier, configReplaceMap,
                   files, fileIndex, guidCounter, procCalls>>

----------------------------------------------------------------------------
(* The token map *)

\* The keys of configReplaceMap, in the order OnPostProcess inserts them.
SeedOrder ==
    <<"${AppName}", "${AppIdentifier}", "${AppTeamId}", "${AppVersion}", "${ProjectName}",
      "${ProjectVersion}", "${HeaderSearchPaths}", "${PBXBuildFile}",
      "${PBXCopyFilesBuildPhaseFiles}", "${PBXFileReference}", "${PBXFrameworksBuildPhase}",
      "${PBXFrameworksGroup}", "${PBXFilesGroup}", "${PBXResourcesGroup}">>

\* The keys whose value is generated by the loop over the files.
SectionKeys ==
    {"${PBXBuildFile}", "${PBXCopyFilesBuildPhaseFiles}", "${PBXFileReference}",
     "${PBXFrameworksBuildPhase}", "${PBXFrameworksGroup}", "${PBXFilesGroup}",
     "${PBXResourcesGroup}"}

SeedKeys == Range(SeedOrder)

\* The text of a key.
KeyText(k) ==
    CASE k = "${AppName}" -> <<"$", "{", "A", "p", "p", "N", "a", "m", "e", "}">>
      [] k = "${AppIdentifier}" -> <<"$", "{", "A", "p", "p", "I", "d", "e", "n", "t", "i", "f", "i", "e", "r", "}">>
      [] k = "${AppTeamId}" -> <<"$", "{", "A", "p", "p", "T", "e", "a", "m", "I", "d", "}">>
      [] k = "${AppVersion}" -> <<"$", "{", "A", "p", "p", "V", "e", "r", "s", "i", "o", "n", "}">>
      [] k = "${ProjectName}" -> <<"$", "{", "P", "r", "o", "j", "e", "c", "t", "N", "a", "m", "e", "}">>
      [] k = "${ProjectVersion}" -> <<"$", "{", "P", "r", "o", "j", "e", "c", "t", "V", "e", "r", "s", "i", "o", "n", "}">>
      [] k = "${HeaderSearchPaths}" -> <<"$", "{", "H", "e", "a", "d", "e", "r", "S", "e", "a", "r", "c", "h", "P", "a", "t", "h", "s", "}">>
      [] k = "${PBXBuildFile}" -> <<"$", "{", "P", "B", "X", "B", "u", "i", "l", "d", "F", "i", "l", "e", "}">>
      [] k = "${PBXCopyFilesBuildPhaseFiles}" -> <<"$", "{", "P", "B", "X", "C", "o", "p", "y", "F", "i", "l", "e", "s", "B", "u", "i", "l", "d", "P", "h", "a", "s", "e", "F", "i", "l", "e", "s", "}">>
      [] k = "${PBXFileReference}" -> <<"$", "{", "P", "B", "X", "F", "i", "l", "e", "R", "e", "f", "e", "r", "e", "n", "c", "e", "}">>
      [] k = "${PBXFrameworksBuildPhase}" -> <<"$", "{", "P", "B", "X", "F", "r", "a", "m", "e", "w", "o", "r", "k", "s", "B", "u", "i", "l", "d", "P", "h", "a", "s", "e", "}">>
      [] k = "${PBXFrameworksGroup}" -> <<"$", "{", "P", "B", "X", "F", "r", "a", "m", "e", "w", "o", "r", "k", "s", "G", "r", "o", "u", "p", "}">>
      [] k = "${PBXFilesGroup}" -> <<"$", "{", "P", "B", "X", "F", "i", "l", "e", "s", "G", "r", "o", "u", "p", "}">>
      [] k = "${PBXResourcesGroup}" -> <<"$", "{", "P", "B", "X", "R", "e", "s", "o", "u", "r", "c", "e", "s", "G", "r", "o", "u", "p", "}">>

\* Editor::Project->Version.ToString()
projectVersion == <<"1", ".", "0">>

\* The value a key is given when the map is set up.
SeedValue(k) ==
    CASE k = "${AppName}" -> appName
      [] k = "${AppIdentifier}" -> appIdentifier
      [] k = "${AppTeamId}" -> platformSettings.AppTeamId
      [] k = "${AppVersion}" -> <<"1">>
      [] k = "${ProjectName}" -> gameSettings.ProductName
      [] k = "${ProjectVersion}" -> projectVersion
      [] k = "${HeaderSearchPaths}" -> StartupFolder
      [] OTHER -> <<>>

SeedTokenMap ==
    /\ pc = "seed"
    /\ configReplaceMap' = [k \in SeedKeys |-> SeedValue(k)]
    /\ pc' = "rename"
    /\ UNCHANGED <<settingsVars, textureVars, projectFile, appName, appIdentifier, files,
                   fileIndex, guidCounter, calls, procCalls, log, result>>

\* The two FileSystem::MoveFile calls; their results are not read.
RenameLicenseFiles ==
    /\ pc = "rename"
    /\ calls' = calls \o <<"MoveFile", "MoveFile">>
    /\ pc' = "list"
    /\ UNCHANGED <<settingsVars, textureVars, projectFile, appName, appIdentifier,
                   configReplaceMap, files, fileIndex, guidCounter, procCalls, log, result>>

\* data.DataOutputPath, which OnBuildStarted roots at FlaxGame/Data.
DataOutputPath == <<"/", "o", "u", "t", "/", "F", "l", "a", "x", "G", "a", "m", "e", "/", "D", "a", "t", "a">>

\* FileSystem::DirectoryGetFiles
ListFiles ==
    /\ pc = "list"
    /\ calls' = Append(calls, "DirectoryGetFiles")
    /\ files' = diskFiles
    /\ fileIndex' = 1
    /\ pc' = "loop"
    /\ UNCHANGED <<settingsVars, textureVars, projectFile, appName, appIdentifier,
                   configReplaceMap, guidCounter, procCalls, log, result>>

----------------------------------------------------------------------------
(* The lines of the generated sections *)

BuildFileLine(id, name, phase, fileRef, codeSign) ==
    [isa |-> "PBXBuildFile", id |-> id, name |-> name, phase |-> phase,
     fileRef |-> fileRef, codeSign |-> codeSign, fileType |-> "", path |-> <<>>]

FileReferenceLine(id, name, fileType, path) ==
    [isa |-> "PBXFileReference", id |-> id, name |-> name, phase |-> "",
     fileRef |-> 0, codeSign |-> FALSE, fileType |-> fileType, path |-> path]

MemberLine(id, name, phase) ==
    [isa |-> "member", id |-> id, name |-> name, phase |-> phase,
     fileRef |-> 0, codeSign |-> FALSE, fileType |-> "", path |-> <<>>]

\* The text String::Format gives a line.
RenderLine(l) ==
    CASE l.isa = "PBXBuildFile" ->
            <<"\t\t">> \o IdText(l.id) \o <<" /* ">> \o l.name
            \o <<" in " \o l.phase \o " */ = {isa = PBXBuildFile; fileRef = ">>
            \o IdText(l.fileRef) \o <<" /* ">> \o l.name \o <<" */; ">>
            \o (IF l.codeSign THEN <<"settings = {ATTRIBUTES = (CodeSignOnCopy, ); }; ">> ELSE <<>>)
            \o <<"};\n">>
      [] l.isa = "PBXFileReference" ->
            <<"\t\t">> \o IdText(l.id) \o <<" /* ">> \o l.name
            \o <<" */ = {isa = PBXFileReference; lastKnownFileType = " \o l.fileType \o "; name = \"">>
            \o l.name \o <<"\"; path = \"">> \o l.path
            \o <<"\"; sourceTree = \"<group>\"; };\n">>
      [] l.isa = "member" ->
            <<"\t\t\t\t">> \o IdText(l.id) \o <<" /* ">> \o l.name
            \o (IF l.phase = "" THEN <<" */,\n">> ELSE <<" in " \o l.phase \o " */,\n">>)

RECURSIVE RenderLines(_)
RenderLines(lines) ==
    IF lines = <<>> THEN <<>> ELSE RenderLine(Head(lines)) \o RenderLines(Tail(lines))

\* The text of the value of key k.
MapValueText(map, k) == IF k \in SectionKeys THEN RenderLines(map[k]) ELSE map[k]

\* configReplaceMap[key] += line
AppendLine(map, key, line) ==
    IF key \in DOMAIN map
    THEN [map EXCEPT ![key] = Append(@, line)]
    ELSE map @@ (key :> <<line>>)

RECURSIVE AppendLines(_, _)
AppendLines(map, keyed) ==
    IF keyed = <<>> THEN map
    ELSE AppendLines(AppendLine(map, Head(keyed)[1], Head(keyed)[2]), Tail(keyed))

\* The names the loop skips.
IsExcluded(name) == name = <<".", "D", "S", "_", "S", "t", "o", "r", "e">> \/ name = <<"F", "l", "a", "x", "G", "a", "m", "e">>

IsDylib(name) == EndsWith(name, <<".", "d", "y", "l", "i", "b">>)

\* The ids of a dynamic library: fileId, frameworkId, frameworkEmbedId.
DylibIds(counter) ==
    [fileId |-> GuidNew(counter),
     frameworkId |-> GuidNew(GuidNew(counter)),
     frameworkEmbedId |-> GuidNew(GuidNew(GuidNew(counter))),
     counter |-> GuidNew(GuidNew(GuidNew(counter)))]

ResourceIdsShared(counter) ==
    [fileId |-> GuidNew(counter), fileRefId |-> GuidNew(counter), counter |-> GuidNew(counter)]

\* The ids of any other file: fileId, fileRefId.
ResourceIds(counter) ==
    [fileId |-> GuidNew(counter),
     fileRefId |-> GuidNew(GuidNew(counter)),
     counter |-> GuidNew(GuidNew(counter))]

DylibLinesEmbedUnderFrameworkId(ids, name, projectPath) ==
    <<<<"${PBXBuildFile}", BuildFileLine(ids.frameworkId, name, "Frameworks", ids.fileId, FALSE)>>,
      <<"${PBXBuildFile}", BuildFileLine(ids.frameworkId, name, "Embed Frameworks", ids.fileId, TRUE)>>,
      <<"${PBXCopyFilesBuildPhaseFiles}", MemberLine(ids.frameworkEmbedId, name, "Embed Frameworks")>>,
      <<"${PBXFileReference}", FileReferenceLine(ids.fileId, name, "\"compiled.mach-o.dylib\"",
                                                 <<"F", "l", "a", "x", "G", "a", "m", "e", "/", "D", "a", "t", "a", "/">> \o projectPath)>>,
      <<"${PBXFrameworksBuildPhase}", MemberLine(ids.frameworkId, name, "Frameworks")>>,
      <<"${PBXFrameworksGroup}", MemberLine(ids.fileId, name, "")>>>>

\* The six lines appended for a dynamic library.
DylibLines(ids, name, projectPath) ==
    <<<<"${PBXBuildFile}", BuildFileLine(ids.frameworkId, name, "Frameworks", ids.fileId, FALSE)>>,
      <<"${PBXBuildFile}", BuildFileLine(ids.frameworkEmbedId, name, "Embed Frameworks", ids.fileId, TRUE)>>,
      <<"${PBXCopyFilesBuildPhaseFiles}", MemberLine(ids.frameworkEmbedId, name, "Embed Frameworks")>>,
      <<"${PBXFileReference}", FileReferenceLine(ids.fileId, name, "\"compiled.mach-o.dylib\"",
                                                 <<"F", "l", "a", "x", "G", "a", "m", "e", "/", "D", "a", "t", "a", "/">> \o projectPath)>>,
      <<"${PBXFrameworksBuildPhase}", MemberLine(ids.frameworkId, name, "Frameworks")>>,
      <<"${PBXFrameworksGroup}", MemberLine(ids.fileId, name, "")>>>>

ResourceLinesInFrameworksGroup(ids, name, projectPath) ==
    <<<<"${PBXBuildFile}", BuildFileLine(ids.fileRefId, name, "Resources", ids.fileId, FALSE)>>,
      <<"${PBXFileReference}", FileReferenceLine(ids.fileId, name, "file", <<"D", "a", "t", "a", "/">> \o projectPath)>>,
      <<"${PBXFrameworksGroup}", MemberLine(ids.fileId, name, "")>>,
      <<"${PBXResourcesGroup}", MemberLine(ids.fileRefId, name, "Resources")>>>>

\* The four lines appended for any other file.
ResourceLines(ids, name, projectPath) ==
    <<<<"${PBXBuildFile}", BuildFileLine(ids.fileRefId, name, "Resources", ids.fileId, FALSE)>>,
      <<"${PBXFileReference}", FileReferenceLine(ids.fileId, name, "file", <<"D", "a", "t", "a", "/">> \o projectPath)>>,
      <<"${PBXFilesGroup}", MemberLine(ids.fileId, name, "")>>,
      <<"${PBXResourcesGroup}", MemberLine(ids.fileRefId, name, "Resources")>>>>

FixupArgumentsPathOnly(name, file) == <<"-id \"@rpath/">> \o file \o <<"\" \"">> \o file \o <<"\"">>

\* proc.Arguments of the install_name_tool call.
FixupArguments(name, file) == <<"-id \"@rpath/">> \o name \o <<"\" \"">> \o file \o <<"\"">>

\* The results Platform::CreateProcess may return.
ExitCodes == {0, 1}

FixupResultAbortsOnFailure(code) == code # 0

\* Whether the value Platform::CreateProcess returns ends the run: it is discarded.
FixupResultAborts(code) == FALSE

\* One pass of the loop over files.
ProcessFile ==
    /\ pc = "loop"
    /\ fileIndex <= Len(files)
    /\ fileIndex' = fileIndex + 1
    /\ LET file == files[fileIndex]
           name == GetFileName(file)
           projectPath == ConvertAbsolutePathToRelative(DataOutputPath, file)
       IN IF IsExcluded(name)
          THEN UNCHANGED <<configReplaceMap, guidCounter, calls, procCalls, pc, result>>
          ELSE IF IsDylib(name)
          THEN LET ids == DylibIds(guidCounter)
               IN /\ guidCounter' = ids.counter
                  /\ configReplaceMap' =
                        AppendLines(configReplaceMap, DylibLines(ids, name, projectPath))
                  /\ calls' = Append(calls, "CreateProcess")
                  /\ \E code \in ExitCodes :
                        /\ procCalls' = Append(procCalls,
                              [FileName |-> "install_name_tool",
                               Arguments |-> FixupArguments(name, file),
                               result |-> code])
                        /\ IF FixupResultAborts(code)
                           THEN pc' = "done" /\ result' = TRUE
                           ELSE UNCHANGED <<pc, result>>
          ELSE LET ids == ResourceIds(guidCounter)
               IN /\ guidCounter' = ids.counter
                  /\ configReplaceMap' =
                        AppendLines(configReplaceMap, ResourceLines(ids, name, projectPath))
                  /\ UNCHANGED <<calls, procCalls, pc, result>>
    /\ UNCHANGED <<settingsVars, textureVars, projectFile, appName, appIdentifier, files, log>>

----------------------------------------------------------------------------
(* Template substitution and packaging *)

Reverse(s) == [i \in 1..Len(s) |-> s[Len(s) + 1 - i]]

\* The orders in which the entries of the Dictionary may be visited.
IterationOrders(map) ==
    LET inserted == SelectSeq(SeedOrder, LAMBDA k : k \in DOMAIN map)
    IN {inserted, Reverse(inserted)}

RECURSIVE ReplaceKeys(_, _, _, _)
ReplaceKeys(text, map, order, i) ==
    IF i > Len(order) THEN text
    ELSE ReplaceKeys(Replace(text, KeyText(order[i]), MapValueText(map, order[i]), FALSE),
                     map, order, i + 1)

\* EditorUtilities::ReplaceInFile: the text written back, one String::Replace per entry.
ReplaceInText(text, map, order) == ReplaceKeys(text, map, order, 1)

ReplaceInFileIgnoresFailure ==
    /\ pc = "loop"
    /\ fileIndex > Len(files)
    /\ calls' = Append(calls, "ReplaceInFile")
    /\ \E failed \in BOOLEAN :
          IF failed
          THEN UNCHANGED projectFile
          ELSE \E order \in IterationOrders(configReplaceMap) :
                  projectFile' = ReplaceInText(projectFile, configReplaceMap, order)
    /\ pc' = "package"
    /\ UNCHANGED <<settingsVars, textureVars, appName, appIdentifier, configReplaceMap,
                   files, fileIndex, guidCounter, procCalls, log, result>>

ReplaceInFile ==
    /\ pc = "loop"
    /\ fileIndex > Len(files)
    /\ calls' = Append(calls, "ReplaceInFile")
    /\ \E failed \in BOOLEAN :
          IF failed
          THEN /\ log' = Append(log, LogFormatFailed)
               /\ result' = TRUE
               /\ pc' = "done"
               /\ UNCHANGED projectFile
          ELSE /\ \E order \in IterationOrders(configReplaceMap) :
                     projectFile' = ReplaceInText(projectFile, configReplaceMap, order)
               /\ pc' = "package"
               /\ UNCHANGED <<log, result>>
    /\ UNCHANGED <<settingsVars, textureVars, appName, appIdentifier, configReplaceMap,
                   files, fileIndex, guidCounter, procCalls>>

Package ==
    /\ pc = "package"
    /\ IF buildSettings.SkipPackaging
       THEN UNCHANGED <<calls, log>>
       ELSE /\ calls' = Append(calls, "PackageFiles")
            /\ log' = Append(log, LogBuildingPackage)
    /\ result' = FALSE
    /\ pc' = "done"
    /\ UNCHANGED <<settingsVars, textureVars, projectFile, appName, appIdentifier,
                   configReplaceMap, files, fileIndex, guidCounter, procCalls>>

----------------------------------------------------------------------------
(* GetTextureFormat *)

\* PixelFormatExtensions::IsCompressedBC: the block compressed formats.
BCFormats ==
    {"BC1_Typeless", "BC1_UNorm", "BC1_UNorm_sRGB",
     "BC2_Typeless", "BC2_UNorm", "BC2_UNorm_sRGB",
     "BC3_Typeless", "BC3_UNorm", "BC3_UNorm_sRGB",
     "BC4_Typeless", "BC4_UNorm", "BC4_SNorm",
     "BC5_Typeless", "BC5_UNorm", "BC5_SNorm",
     "BC6H_Typeless", "BC6H_Uf16", "BC6H_Sf16",
     "BC7_Typeless", "BC7_UNorm", "BC7_UNorm_sRGB"}

IsCompressedBC(f) == f \in BCFormats

\* Formats of the PixelFormat enumeration that are not block compressed.
OtherFormats ==
    {"Unknown",
     "R32G32B32A32_Typeless", "R32G32B32A32_Float", "R32G32B32A32_UInt", "R32G32B32A32_SInt",
     "R16G16B16A16_Typeless", "R16G16B16A16_Float", "R16G16B16A16_UNorm",
     "R16G16B16A16_UInt", "R16G16B16A16_SNorm", "R16G16B16A16_SInt",
     "R8G8B8A8_Typeless", "R8G8B8A8_UNorm", "R8G8B8A8_UNorm_sRGB",
     "R8G8B8A8_UInt", "R8G8B8A8_SNorm", "R8G8B8A8_SInt",
     "R16G16_Typeless", "R16G16_Float", "R16G16_UNorm",
     "R16G16_UInt", "R16G16_SNorm", "R16G16_SInt",
     "R8_Typeless", "R8_UNorm", "R8_UInt", "R8_SNorm", "R8_SInt",
     "A8_UNorm", "R32_Float", "D32_Float", "B8G8R8A8_UNorm", "B8G8R8A8_UNorm_sRGB"}

PixelFormat == BCFormats \cup OtherFormats

GetTextureFormatKeepsBC7sRGB(f) ==
    IF IsCompressedBC(f)
    THEN CASE f \in {"BC1_Typeless", "BC2_Typeless", "BC3_Typeless"} -> "R8G8B8A8_Typeless"
           [] f \in {"BC1_UNorm", "BC2_UNorm", "BC3_UNorm"} -> "R8G8B8A8_UNorm"
           [] f \in {"BC1_UNorm_sRGB", "BC2_UNorm_sRGB", "BC3_UNorm_sRGB"} -> "R8G8B8A8_UNorm_sRGB"
           [] f = "BC4_Typeless" -> "R8_Typeless"
           [] f = "BC4_UNorm" -> "R8_UNorm"
           [] f = "BC4_SNorm" -> "R8_SNorm"
           [] f = "BC5_Typeless" -> "R16G16_Typeless"
           [] f = "BC5_UNorm" -> "R16G16_UNorm"
           [] f = "BC5_SNorm" -> "R16G16_SNorm"
           [] f \in {"BC7_Typeless", "BC6H_Typeless"} -> "R16G16B16A16_Typeless"
           [] f \in {"BC7_UNorm", "BC6H_Uf16", "BC6H_Sf16"} -> "R16G16B16A16_Float"
           [] f = "BC7_UNorm_sRGB" -> "BC7_UNorm"
           [] OTHER -> f
    ELSE f

GetTextureFormat(f) ==
    IF IsCompressedBC(f)
    THEN CASE f \in {"BC1_Typeless", "BC2_Typeless", "BC3_Typeless"} -> "R8G8B8A8_Typeless"
           [] f \in {"BC1_UNorm", "BC2_UNorm", "BC3_UNorm"} -> "R8G8B8A8_UNorm"
           [] f \in {"BC1_UNorm_sRGB", "BC2_UNorm_sRGB", "BC3_UNorm_sRGB"} -> "R8G8B8A8_UNorm_sRGB"
           [] f = "BC4_Typeless" -> "R8_Typeless"
           [] f = "BC4_UNorm" -> "R8_UNorm"
           [] f = "BC4_SNorm" -> "R8_SNorm"
           [] f = "BC5_Typeless" -> "R16G16_Typeless"
           [] f = "BC5_UNorm" -> "R16G16_UNorm"
           [] f = "BC5_SNorm" -> "R16G16_SNorm"
           [] f \in {"BC7_Typeless", "BC6H_Typeless"} -> "R16G16B16A16_Typeless"
           [] f \in {"BC7_UNorm", "BC6H_Uf16", "BC6H_Sf16"} -> "R16G16B16A16_Float"
           [] f = "BC7_UNorm_sRGB" -> "R16G16B16A16_UNorm"
           [] OTHER -> f
    ELSE f

\* GetTextureFormat called for the format of a texture.
CookTexture ==
    /\ cooked = "none"
    /\ cooked' = GetTextureFormat(format)
    /\ UNCHANGED <<settingsVars, pipelineVars, format, recooked>>

\* GetTextureFormat called for a format it returned.
CookAgain ==
    /\ cooked # "none"
    /\ recooked = "none"
    /\ recooked' = GetTextureFormat(cooked)
    /\ UNCHANGED <<settingsVars, pipelineVars, format, cooked>>

----------------------------------------------------------------------------
(* Inputs and specifications *)

\* The state in which OnPostProcess is entered.
PipelineStart ==
    /\ projectFile = <<>>
    /\ pc = "start"
    /\ appName = <<>>
    /\ appIdentifier = <<>>
    /\ configReplaceMap = <<>>
    /\ files = <<>>
    /\ fileIndex = 0
    /\ guidCounter = 0
    /\ calls = <<>>
    /\ procCalls = <<>>
    /\ log = <<>>
    /\ result = "none"

NoTexture == format = "Unknown" /\ cooked = "none" /\ recooked = "none"

AbsolutePath(rel) == DataOutputPath \o <<"/">> \o rel

\* The lists of at most n different members of S.
RECURSIVE Listings(_, _)
Listings(S, n) ==
    IF n = 0 THEN {<<>>}
    ELSE LET shorter == Listings(S, n - 1)
         IN shorter \cup {Append(l, x) : <<l, x>> \in {p \in shorter \X S : p[2] \notin Range(p[1])}}

\* A project template that uses every key.
FullTemplate ==
    <<"n", "=", "$", "{", "A", "p", "p", "N", "a", "m", "e", "}", ";", "i", "=", "$", "{", "A", "p", "p", "I", "d", "e", "n", "t", "i", "f", "i", "e", "r", "}", ";", "t", "=", "$", "{", "A", "p", "p", "T", "e", "a", "m", "I", "d", "}", ";", "v", "=", "$", "{", "A", "p", "p", "V", "e", "r", "s", "i", "o", "n", "}", ";">>
    \o <<"p", "=", "$", "{", "P", "r", "o", "j", "e", "c", "t", "N", "a", "m", "e", "}", ";", "w", "=", "$", "{", "P", "r", "o", "j", "e", "c", "t", "V", "e", "r", "s", "i", "o", "n", "}", ";", "h", "=", "$", "{", "H", "e", "a", "d", "e", "r", "S", "e", "a", "r", "c", "h", "P", "a", "t", "h", "s", "}", ";">>
    \o <<"$", "{", "P", "B", "X", "B", "u", "i", "l", "d", "F", "i", "l", "e", "}", "|", "$", "{", "P", "B", "X", "C", "o", "p", "y", "F", "i", "l", "e", "s", "B", "u", "i", "l", "d", "P", "h", "a", "s", "e", "F", "i", "l", "e", "s", "}", "|", "$", "{", "P", "B", "X", "F", "i", "l", "e", "R", "e", "f", "e", "r", "e", "n", "c", "e", "}", "|">>
    \o <<"$", "{", "P", "B", "X", "F", "r", "a", "m", "e", "w", "o", "r", "k", "s", "B", "u", "i", "l", "d", "P", "h", "a", "s", "e", "}", "|", "$", "{", "P", "B", "X", "F", "r", "a", "m", "e", "w", "o", "r", "k", "s", "G", "r", "o", "u", "p", "}", "|", "$", "{", "P", "B", "X", "F", "i", "l", "e", "s", "G", "r", "o", "u", "p", "}", "|", "$", "{", "P", "B", "X", "R", "e", "s", "o", "u", "r", "c", "e", "s", "G", "r", "o", "u", "p", "}">>

CookedFiles ==
    {AbsolutePath(<<"l", "i", "b", ".", "d", "y", "l", "i", "b">>), AbsolutePath(<<"d", "a", "t", "a", ".", "b", "i", "n">>), AbsolutePath(<<".", "D", "S", "_", "S", "t", "o", "r", "e">>),
     AbsolutePath(<<"F", "l", "a", "x", "G", "a", "m", "e">>), AbsolutePath(<<"D", "o", "t", "n", "e", "t", "/", "l", "i", "b", ".", "d", "y", "l", "i", "b">>)}

Identifiers == {<<"c", "o", "m", ".", "$", "{", "C", "O", "M", "P", "A", "N", "Y", "_", "N", "A", "M", "E", "}", ".", "$", "{", "P", "R", "O", "J", "E", "C", "T", "_", "N", "A", "M", "E", "}">>, <<"c", "o", "m", ".", "A", "c", "m", "e", "!", ".", "G", "a", "m", "e">>, <<>>}

Init ==
    /\ gameSettings = [ProductName |-> <<"M", "y", ".", "G", "a", "m", "e", "-", "1">>, CompanyName |-> <<"A", "c", "m", "e", " ", "I", "n", "c">>]
    /\ platformSettings \in {[AppIdentifier |-> t, AppTeamId |-> <<"T", "E", "A", "M", "1">>] : t \in Identifiers}
    /\ buildSettings \in {[SkipPackaging |-> b] : b \in BOOLEAN}
    /\ StartupFolder = <<"/", "f", "l", "a", "x">>
    /\ diskFiles \in Listings(CookedFiles, MaxFiles)
    /\ templateFile = FullTemplate
    /\ PipelineStart
    /\ NoTexture

Next ==
    \/ ResolveIdentifier
    \/ DeployTemplate
    \/ SeedTokenMap
    \/ RenameLicenseFiles
    \/ ListFiles
    \/ ProcessFile
    \/ ReplaceInFile
    \/ Package

Spec == Init /\ [][Next]_vars

InitTex ==
    /\ gameSettings = [ProductName |-> <<"M", "y", ".", "G", "a", "m", "e", "-", "1">>, CompanyName |-> <<"A", "c", "m", "e", " ", "I", "n", "c">>]
    /\ platformSettings = [AppIdentifier |-> <<"c", "o", "m", ".", "a", "c", "m", "e", ".", "g", "a", "m", "e">>, AppTeamId |-> <<"T", "E", "A", "M", "1">>]
    /\ buildSettings = [SkipPackaging |-> TRUE]
    /\ StartupFolder = <<"/", "f", "l", "a", "x">>
    /\ diskFiles = <<>>
    /\ templateFile = FullTemplate
    /\ PipelineStart
    /\ format \in PixelFormat
    /\ cooked = "none"
    /\ recooked = "none"

NextTex == CookTexture \/ CookAgain

SpecTex == InitTex /\ [][NextTex]_vars

\* Settings that exercise the application identifier.
ProductNames == {<<"M", "y", ".", "G", "a", "m", "e", "-", "1">>, <<"G", "a", "m", "e", "_", "2">>, <<" ", ".", "-">>, <<"J", "e", "u", "!">>, <<"$", "{", "C", "O", "M", "P", "A", "N", "Y", "_", "N", "A", "M", "E", "}">>, <<>>}

CompanyNames == {<<"A", "c", "m", "e", " ", "I", "n", "c">>, <<"A", ".", "c", "-", "m", " ", "e">>, <<"$", "{", "P", "R", "O", "J", "E", "C", "T", "_", "N", "A", "M", "E", "}">>, <<>>}

IdentifierTemplates ==
    {<<"c", "o", "m", ".", "$", "{", "C", "O", "M", "P", "A", "N", "Y", "_", "N", "A", "M", "E", "}", ".", "$", "{", "P", "R", "O", "J", "E", "C", "T", "_", "N", "A", "M", "E", "}">>, <<"c", "o", "m", ".", "$", "{", "c", "o", "m", "p", "a", "n", "y", "_", "n", "a", "m", "e", "}", ".", "$", "{", "P", "r", "o", "j", "e", "c", "t", "_", "N", "a", "m", "e", "}">>,
     <<"$", "{", "P", "R", "O", "J", "E", "C", "T", "_", "N", "A", "M", "E", "}">>, <<"$", "{", "P", "R", "O", "J", "E", "C", "T", "_", "N", "A", "M", "E", "}", "$", "{", "C", "O", "M", "P", "A", "N", "Y", "_", "N", "A", "M", "E", "}">>, <<"m", "y", "_", "a", "p", "p", ".", "$", "{", "P", "R", "O", "J", "E", "C", "T", "_", "N", "A", "M", "E", "}">>,
     <<"c", "o", "m", ".", "A", "c", "m", "e", "!", ".", "G", "a", "m", "e">>, <<"c", "o", "m", ".", "a", "c", "m", "e", " ", "g", "a", "m", "e">>, <<"a", "-", "b">>, <<"c", "a", "f">> \o <<"U+00E9">>, <<>>}

InitIdent ==
    /\ gameSettings \in {[ProductName |-> p, CompanyName |-> c] :
                           p \in ProductNames, c \in CompanyNames}
    /\ platformSettings \in {[AppIdentifier |-> t, AppTeamId |-> <<"T", "E", "A", "M", "1">>] :
                               t \in IdentifierTemplates}
    /\ buildSettings = [SkipPackaging |-> FALSE]
    /\ StartupFolder = <<"/", "f", "l", "a", "x">>
    /\ diskFiles = <<AbsolutePath(<<"l", "i", "b", ".", "d", "y", "l", "i", "b">>), AbsolutePath(<<"d", "a", "t", "a", ".", "b", "i", "n">>)>>
    /\ templateFile = <<"$", "{", "A", "p", "p", "I", "d", "e", "n", "t", "i", "f", "i", "e", "r", "}">>
    /\ PipelineStart
    /\ NoTexture

SpecIdent == InitIdent /\ [][Next]_vars

\* Settings, files and templates that exercise the template substitution.
MaxSubstFiles == 2

SubstProductNames == {<<"G", "a", "m", "e">>, <<"M", "y", " ", "G", "a", "m", "e">>, <<"$", "{", "A", "p", "p", "N", "a", "m", "e", "}">>}

SubstTeamIds == {<<"T", "E", "A", "M", "1">>, <<"$", "{", "P", "r", "o", "j", "e", "c", "t", "N", "a", "m", "e", "}">>}

SubstStartupFolders == {<<"/", "f", "l", "a", "x">>, <<"/", "$", "{", "A", "p", "p", "T", "e", "a", "m", "I", "d", "}">>}

SubstFiles ==
    {AbsolutePath(<<"l", "i", "b", ".", "d", "y", "l", "i", "b">>), AbsolutePath(<<"d", "a", "t", "a", ".", "b", "i", "n">>), AbsolutePath(<<".", "D", "S", "_", "S", "t", "o", "r", "e">>),
     AbsolutePath(<<"$", "{", "A", "p", "p", "N", "a", "m", "e", "}">>)}

Templates == {FullTemplate, <<"n", "a", "m", "e", "=", "$", "{", "P", "r", "o", "j", "e", "c", "t", "N", "a", "m", "e", "}", "/", "$", "{", "A", "p", "p", "N", "a", "m", "e", "}">>, <<"$", "{", "A", "p", "p", "$", "{", "P", "B", "X", "F", "i", "l", "e", "s", "G", "r", "o", "u", "p", "}", "N", "a", "m", "e", "}">>}

InitSubst ==
    /\ gameSettings \in {[ProductName |-> p, CompanyName |-> <<"A", "c", "m", "e">>] : p \in SubstProductNames}
    /\ platformSettings \in {[AppIdentifier |-> <<"c", "o", "m", ".", "a", "c", "m", "e", ".", "g", "a", "m", "e">>, AppTeamId |-> t] :
                               t \in SubstTeamIds}
    /\ buildSettings = [SkipPackaging |-> TRUE]
    /\ StartupFolder \in SubstStartupFolders
    /\ diskFiles \in Listings(SubstFiles, MaxSubstFiles)
    /\ templateFile \in Templates
    /\ PipelineStart
    /\ NoTexture

SpecSubst == InitSubst /\ [][Next]_vars

----------------------------------------------------------------------------
(* Properties of the generated sections *)

SectionLines(k) == IF k \in DOMAIN configReplaceMap THEN configReplaceMap[k] ELSE <<>>

\* The keys whose lines only name an id that another line introduces.
MembershipKeys ==
    {"${PBXCopyFilesBuildPhaseFiles}", "${PBXFrameworksBuildPhase}", "${PBXFrameworksGroup}",
     "${PBXFilesGroup}", "${PBXResourcesGroup}"}

MembershipIds ==
    UNION {{SectionLines(k)[i].id : i \in 1..Len(SectionLines(k))} : k \in MembershipKeys}

FileRefIds ==
    {SectionLines("${PBXBuildFile}")[i].fileRef : i \in 1..Len(SectionLines("${PBXBuildFile}"))}

\* The entries of which id x is the subject.
SubjectEntries(x) ==
    UNION {{<<k, i>> : i \in {j \in 1..Len(SectionLines(k)) : SectionLines(k)[j].id = x}} :
             k \in {"${PBXBuildFile}", "${PBXFileReference}"}}

SubjectIds ==
    UNION {{SectionLines(k)[i].id : i \in 1..Len(SectionLines(k))} :
             k \in {"${PBXBuildFile}", "${PBXFileReference}"}}

\* The files the loop does not skip, and the dynamic libraries among them.
IsArtifact(file) == GetFileName(file) \notin {<<".", "D", "S", "_", "S", "t", "o", "r", "e">>, <<"F", "l", "a", "x", "G", "a", "m", "e">>}

IsLibrary(file) ==
    /\ IsArtifact(file)
    /\ Len(GetFileName(file)) >= 6
    /\ SubSeq(GetFileName(file), Len(GetFileName(file)) - 5, Len(GetFileName(file))) = <<".", "d", "y", "l", "i", "b">>

IsResource(file) == IsArtifact(file) /\ ~IsLibrary(file)

Artifacts == SelectSeq(diskFiles, IsArtifact)

Libraries == SelectSeq(diskFiles, IsLibrary)

\* The loop over the files has ended.
LoopFinished ==
    \/ pc = "loop" /\ fileIndex > Len(files)
    \/ pc = "package"
    \/ pc = "done" /\ \E i \in 1..Len(calls) : calls[i] = "ReplaceInFile"

\* C1: every id named by a membership line or by the fileRef of a PBXBuildFile entry is
\* the subject of exactly one PBXBuildFile or PBXFileReference entry, and no id is the
\* subject of two entries.
C1_ReferencesResolveOnce ==
    /\ \A x \in MembershipIds \cup FileRefIds : Cardinality(SubjectEntries(x)) = 1
    /\ \A x \in SubjectIds : Cardinality(SubjectEntries(x)) = 1

\* C1 witness: a finished loop that wrote lines for a library and for a resource.
C1_Witness ==
    /\ LoopFinished
    /\ Len(SectionLines("${PBXFrameworksGroup}")) >= 1
    /\ Len(SectionLines("${PBXResourcesGroup}")) >= 1
    /\ Len(SectionLines("${PBXCopyFilesBuildPhaseFiles}")) >= 1

\* Every id that occurs in a generated line.
AllIds == (MembershipIds \cup FileRefIds \cup SubjectIds) \ {0}

\* C2, as stated: N artifacts of which M are libraries take (N - M) + 3M distinct ids.
C2_Original_OneIdPerResource ==
    LoopFinished =>
        Cardinality(AllIds) = (Len(Artifacts) - Len(Libraries)) + 3 * Len(Libraries)

\* C2, amended: N artifacts of which M are libraries take 2(N - M) + 3M distinct ids,
\* two for each resource and three for each library.
C2_TwoIdsPerResource ==
    LoopFinished =>
        /\ Cardinality(AllIds) = 2 * (Len(Artifacts) - Len(Libraries)) + 3 * Len(Libraries)
        /\ guidCounter = 2 * (Len(Artifacts) - Len(Libraries)) + 3 * Len(Libraries)

\* C2 witness: a finished loop over a library, a resource and a skipped file.
C2_Witness ==
    /\ LoopFinished
    /\ Len(Libraries) >= 1
    /\ Len(Artifacts) > Len(Libraries)
    /\ Len(diskFiles) > Len(Artifacts)
    /\ guidCounter >= 5

----------------------------------------------------------------------------
(* Properties of the sequence of steps *)

Logged(text) == \E i \in 1..Len(log) : log[i].text = text

IdentifierRejected ==
    Logged(LogInvalidIdentifier(<<>>).text) \/ Logged(LogEmptyIdentifier(<<>>).text)

\* C3: a run that fails at the identifier, at the deployment or at the substitution
\* returns failure, and has made no call that follows the failing step.
C3_FailureEndsTheRun ==
    /\ IdentifierRejected =>
          pc = "done" /\ result = TRUE /\ calls = <<>> /\ procCalls = <<>> /\ projectFile = <<>>
    /\ Logged(LogDeployFailed.text) =>
          pc = "done" /\ result = TRUE /\ calls = <<"CopyDirectory">> /\ procCalls = <<>>
    /\ Logged(LogFormatFailed.text) =>
          /\ pc = "done" /\ result = TRUE
          /\ calls[Len(calls)] = "ReplaceInFile"
          /\ \A i \in 1..Len(calls) : calls[i] # "PackageFiles"
    /\ (pc = "done" /\ result = FALSE) =>
          ~IdentifierRejected /\ ~Logged(LogDeployFailed.text) /\ ~Logged(LogFormatFailed.text)

\* C3 witness: a run that failed at the substitution, after the fix-up calls, with
\* packaging asked for.
C3_Witness ==
    /\ pc = "done"
    /\ result = TRUE
    /\ Logged(LogFormatFailed.text)
    /\ procCalls # <<>>
    /\ ~buildSettings.SkipPackaging

\* The install_name_tool calls the files ask for, in the order of the files.
ExpectedFixups ==
    [i \in 1..Len(Libraries) |->
        [FileName |-> "install_name_tool",
         Arguments |-> <<"-id \"@rpath/">> \o GetFileName(Libraries[i]) \o <<"\" \"">>
                       \o Libraries[i] \o <<"\"">>]]

\* C5: the loop starts install_name_tool once for each library, in the order of the
\* files, with -id "@rpath/<name>" "<path>", and for no other file.
C5_OneFixupPerLibrary ==
    LoopFinished =>
        /\ Len(procCalls) = Len(Libraries)
        /\ [i \in 1..Len(procCalls) |->
               [FileName |-> procCalls[i].FileName, Arguments |-> procCalls[i].Arguments]]
           = ExpectedFixups
        /\ Len(SelectSeq(calls, LAMBDA c : c = "CreateProcess")) = Len(Libraries)

\* C5 witness: two libraries, one in a folder, and a file that is no library.
C5_Witness ==
    /\ LoopFinished
    /\ Len(procCalls) = 2
    /\ Len(diskFiles) = 3
    /\ GetFileName(diskFiles[1]) = GetFileName(diskFiles[3])

Added(k) ==
    SubSeq(configReplaceMap'[k], Len(configReplaceMap[k]) + 1, Len(configReplaceMap'[k]))

Grown(k) ==
    /\ Len(configReplaceMap'[k]) >= Len(configReplaceMap[k])
    /\ SubSeq(configReplaceMap'[k], 1, Len(configReplaceMap[k])) = configReplaceMap[k]

Phases(k) == [i \in 1..Len(Added(k)) |-> <<Added(k)[i].isa, Added(k)[i].phase>>]

C7_Step ==
    (pc = "loop" /\ fileIndex <= Len(files) /\ fileIndex' # fileIndex) =>
        LET file == files[fileIndex]
        IN /\ \A k \in SectionKeys : Grown(k)
           /\ ~IsArtifact(file) => configReplaceMap' = configReplaceMap
           /\ IsResource(file) =>
                 /\ Phases("${PBXBuildFile}") = <<<<"PBXBuildFile", "Resources">>>>
                 /\ Phases("${PBXFileReference}") = <<<<"PBXFileReference", "">>>>
                 /\ Added("${PBXFileReference}")[1].path
                       = <<"D", "a", "t", "a", "/">> \o ConvertAbsolutePathToRelative(DataOutputPath, file)
                 /\ Len(Added("${PBXFilesGroup}")) = 1
                 /\ Len(Added("${PBXResourcesGroup}")) = 1
                 /\ Added("${PBXCopyFilesBuildPhaseFiles}") = <<>>
                 /\ Added("${PBXFrameworksBuildPhase}") = <<>>
                 /\ Added("${PBXFrameworksGroup}") = <<>>
           /\ IsLibrary(file) =>
                 /\ Phases("${PBXBuildFile}")
                       = <<<<"PBXBuildFile", "Frameworks">>, <<"PBXBuildFile", "Embed Frameworks">>>>
                 /\ Phases("${PBXFileReference}") = <<<<"PBXFileReference", "">>>>
                 /\ Len(Added("${PBXCopyFilesBuildPhaseFiles}")) = 1
                 /\ Len(Added("${PBXFrameworksBuildPhase}")) = 1
                 /\ Len(Added("${PBXFrameworksGroup}")) = 1
                 /\ Added("${PBXFilesGroup}") = <<>>
                 /\ Added("${PBXResourcesGroup}") = <<>>

\* C7: a resource adds lines to PBXBuildFile (in Resources), PBXFileReference (below
\* Data/), PBXFilesGroup and PBXResourcesGroup only; a library adds lines to PBXBuildFile
\* (in Frameworks, in Embed Frameworks), PBXCopyFilesBuildPhaseFiles, PBXFileReference,
\* PBXFrameworksBuildPhase and PBXFrameworksGroup only; .DS_Store and FlaxGame add none.
C7_SectionsByKind == [][C7_Step]_vars

\* C7 witness: a finished loop over a resource in a folder, a library and a skipped file.
C7_Witness ==
    /\ LoopFinished
    /\ Len(diskFiles) = 3
    /\ Len(Libraries) = 1
    /\ Len(Artifacts) = 2
    /\ Len(SectionLines("${PBXFilesGroup}")) = 1
    /\ Len(SectionLines("${PBXFrameworksGroup}")) = 1

----------------------------------------------------------------------------
(* Properties of the application identifier *)

AllowedIdentifierChars == Range(LowerChars) \cup Range(DigitChars) \cup {".", "_"}

\* The run returned failure before the template was deployed.
FailedAtIdentifier == pc = "done" /\ result = TRUE /\ calls = <<>>

\* C4: the run fails at the identifier exactly when the identifier, after the token
\* replacement and lower-casing, is empty or holds a character outside [a-z0-9._];
\* the error names the identifier.
C4_IdentifierValidation ==
    pc # "start" =>
        /\ FailedAtIdentifier <=>
              \/ appIdentifier = <<>>
              \/ \E i \in 1..Len(appIdentifier) : appIdentifier[i] \notin AllowedIdentifierChars
        /\ FailedAtIdentifier => Len(log) = 1 /\ log[1].arg = appIdentifier

\* C4 witness: the identifier com.Acme!.Game is rejected.
C4_Witness ==
    /\ FailedAtIdentifier
    /\ appIdentifier = <<"c", "o", "m", ".", "a", "c", "m", "e", "!", ".", "g", "a", "m", "e">>
    /\ log[1].text = LogInvalidIdentifier(<<>>).text

Separators == {" ", ".", "-"}

WithoutSeparators(name) == SelectSeq(name, LAMBDA c : c \notin Separators)

\* The template with each token replaced by the name it stands for.
RECURSIVE SubstituteTokens(_, _, _, _)
SubstituteTokens(template, i, product, company) ==
    IF i > Len(template) THEN <<>>
    ELSE IF MatchesAt(template, i, <<"$", "{", "P", "R", "O", "J", "E", "C", "T", "_", "N", "A", "M", "E", "}">>, TRUE)
         THEN product \o SubstituteTokens(template, i + Len(<<"$", "{", "P", "R", "O", "J", "E", "C", "T", "_", "N", "A", "M", "E", "}">>), product, company)
    ELSE IF MatchesAt(template, i, <<"$", "{", "C", "O", "M", "P", "A", "N", "Y", "_", "N", "A", "M", "E", "}">>, TRUE)
         THEN company \o SubstituteTokens(template, i + Len(<<"$", "{", "C", "O", "M", "P", "A", "N", "Y", "_", "N", "A", "M", "E", "}">>), product, company)
    ELSE <<template[i]>> \o SubstituteTokens(template, i + 1, product, company)

\* C10: the app name holds no space, dot or hyphen, and the identifier is the lower-cased
\* template with each ${PROJECT_NAME} and ${COMPANY_NAME} token replaced by the product
\* and company name without spaces, dots and hyphens.
C10_IdentifierIsTemplateWithNames ==
    pc # "start" =>
        /\ Range(appName) \cap Separators = {}
        /\ appName = WithoutSeparators(gameSettings.ProductName)
        /\ appIdentifier =
              ToLower(SubstituteTokens(platformSettings.AppIdentifier, 1,
                                       WithoutSeparators(gameSettings.ProductName),
                                       WithoutSeparators(gameSettings.CompanyName)))

\* C10, for product names that hold no token: used to see that the product name is what
\* separates the code from the claim.
C10_HoldsWithoutTokenInProductName ==
    (pc # "start" /\ gameSettings.ProductName # <<"$", "{", "C", "O", "M", "P", "A", "N", "Y", "_", "N", "A", "M", "E", "}">>) =>
        appIdentifier =
            ToLower(SubstituteTokens(platformSettings.AppIdentifier, 1,
                                     WithoutSeparators(gameSettings.ProductName),
                                     WithoutSeparators(gameSettings.CompanyName)))

----------------------------------------------------------------------------
(* Properties of GetTextureFormat *)

\* C8: GetTextureFormat returns a format for every format, returns a format outside the
\* block compressed set unchanged, and returns its own result unchanged.
C8_DowngradeIdempotent ==
    /\ cooked # "none" =>
          /\ cooked \in PixelFormat
          /\ format \notin BCFormats => cooked = format
    /\ recooked # "none" => recooked = cooked

\* C8 witness: BC7_UNorm_sRGB was downgraded, and the result downgraded again.
C8_Witness ==
    /\ format = "BC7_UNorm_sRGB"
    /\ cooked = "R16G16B16A16_UNorm"
    /\ recooked = "R16G16B16A16_UNorm"

----------------------------------------------------------------------------
(* Properties of the template substitution *)

\* ReplaceInFile has written the project file.
Substituted == pc = "package" \/ (pc = "done" /\ result = FALSE)

\* Every '$' of the text begins a key of the seeded map.
PlaceholdersInMap(text) ==
    \A i \in 1..Len(text) :
        text[i] = "$" => \E k \in Range(SeedOrder) : MatchesAt(text, i, KeyText(k), FALSE)

KeysFound == {k \in DOMAIN configReplaceMap : Contains(projectFile, KeyText(k))}

NoDollarInValues ==
    /\ "$" \notin Range(gameSettings.ProductName)
    /\ "$" \notin Range(platformSettings.AppTeamId)
    /\ "$" \notin Range(StartupFolder)
    /\ \A i \in 1..Len(diskFiles) : "$" \notin Range(diskFiles[i])

\* C9, as stated: for every product name, team id, startup folder and file name, the
\* written project file holds none of the keys of the map.
C9_Original_NoKeyRemains ==
    (Substituted /\ PlaceholdersInMap(templateFile)) => KeysFound = {}

\* C9, amended: the written project file holds none of the keys of the map when no '$'
\* occurs in the product name, the team id, the startup folder or a file path, and every
\* '$' of the template begins a key of the map.
C9_NoKeyRemainsWithoutDollarValues ==
    (Substituted /\ PlaceholdersInMap(templateFile) /\ NoDollarInValues) => KeysFound = {}

\* C9 witness: the template with every key was written for a library and a resource.
C9_Witness ==
    /\ Substituted
    /\ NoDollarInValues
    /\ templateFile = FullTemplate
    /\ Len(diskFiles) = 2
    /\ Len(Libraries) = 1
    /\ Len(Artifacts) = 2
    /\ projectFile # templateFile
====
